---- MODULE Spec2Model ----
(***************************************************************************)
(* A model of the ebar view-path library and its JSON query engine:        *)
(*   crates/view  : Field, Segment, ViewPath (construction, Display,       *)
(*                  starts_with, deque operations) and the path parser     *)
(*   crates/ejson : search_path / search_segment and the nest_find_*       *)
(*                  family                                                 *)
(* Texts (Rust str / String) are sequences of one-character strings, so    *)
(* that slicing, quoting and lexing are computed character by character.   *)
(***************************************************************************)
EXTENDS Integers, Sequences, FiniteSets, TLC

VARIABLES
    text,       \* Field construction: the text handed to Field::from
    field,      \* Field construction: its outcome (a Field, or a panic)
    text2,      \* Field comparison: the text of the second Field
    field2,     \* Field comparison: the second Field (built or rebuilt)
    eq,         \* Field comparison: the outcome of field == field2
    input,      \* parsing: the path string handed to ViewPath::parse_str
    parsed,     \* parsing: the outcome of parse_str(input)
    formatted,  \* parsing: to_string() of the parsed path
    reparsed,   \* parsing: parse_str(formatted)
    path,       \* path operations: the segments of a ViewPath, front first
    needle,     \* path operations: the candidate prefix handed to starts_with
    ret,        \* path operations: the last operation and what it returned
    doc,        \* query engine: the serde_json document
    out         \* query engine: the last query and what it returned

vars == <<text, field, text2, field2, eq, input, parsed, formatted, reparsed,
          path, needle, ret, doc, out>>
compareVars == <<text2, field2, eq>>
fieldVars == <<text, field, compareVars>>
parseVars == <<input, parsed, formatted, reparsed>>
pathVars == <<path, needle, ret>>
queryVars == <<doc, out>>

\* The value of a variable that the running specification does not use, and
\* of a result that has not been computed yet; Set(v) is a computed result v.
Unset == [tag |-> "unset"]
Set(v) == [tag |-> "set", val |-> v]

-----------------------------------------------------------------------------
(* Bounds of the model *)

MaxText == 3        \* longest text handed to Field::from
MaxInput == 5       \* longest path string handed to the parser
MaxSegs == 3        \* most segments a ViewPath grows to
MaxNeedle == 2      \* most segments of a path handed to extend or starts_with
MaxArr == 2         \* most elements of an array of a document
MaxMembers == 2     \* most members of an object of a document
MaxDepth == 2       \* deepest nesting of a searched document
MaxCoalesce == 2    \* most fields of a probing Coalesce segment
WordBits == 5       \* bits of the machine word (isize, usize), scaled down

-----------------------------------------------------------------------------
(* Texts *)

Quote == "\""
Backslash == "\\"

Digits == {"0", "1", "2", "3", "4", "5", "6", "7", "8", "9"}
Letters == {"a", "b", "c", "d", "e", "f", "g", "h", "i", "j", "k", "l", "m",
            "n", "o", "p", "q", "r", "s", "t", "u", "v", "w", "x", "y", "z",
            "A", "B", "C", "D", "E", "F", "G", "H", "I", "J", "K", "L", "M",
            "N", "O", "P", "Q", "R", "S", "T", "U", "V", "W", "X", "Y", "Z"}

\* All texts over the alphabet cs of length at most n.
RECURSIVE TextsUpTo(_, _)
TextsUpTo(cs, n) ==
    IF n = 0 THEN {<<>>}
    ELSE LET shorter == TextsUpTo(cs, n - 1)
         IN shorter \cup {Append(t, c) : t \in shorter, c \in cs}

-----------------------------------------------------------------------------
(* crates/view/src/field.rs *)

\* VALID_FIELD: ^[0-9]*[a-zA-Z_][0-9a-zA-Z_]*$
is_valid_field_name(name) ==
    \E i \in 1..Len(name) :
        /\ name[i] \in Letters \cup {"_"}
        /\ \A j \in 1..(i - 1) : name[j] \in Digits
        /\ \A j \in (i + 1)..Len(name) : name[j] \in Digits \cup Letters \cup {"_"}

\* starts_with accepting any first character.
starts_with_any(name) == Len(name) > 0

\* str::starts_with('"') and str::ends_with('"')
starts_with_quote(name) == Len(name) > 0 /\ name[1] = Quote
ends_with_quote(name) == Len(name) > 0 /\ name[Len(name)] = Quote

\* The outcome of an operation that can panic.
Panicked == [panic |-> TRUE]
Returned(v) == [panic |-> FALSE, val |-> v]

\* struct Field / FieldBuf
Field(name, requires_quoting) ==
    [name |-> name, requires_quoting |-> requires_quoting]

\* impl From<&str> for Field, impl From<String> for FieldBuf: the slice
\* name[1..len - 1] panics when len = 1 (the range 1..0 starts after its end).
FieldFrom(name) ==
    IF starts_with_quote(name) /\ ends_with_quote(name)
    THEN LET len == Len(name)
         IN IF 1 > len - 1
            THEN Panicked
            ELSE Returned(Field(SubSeq(name, 2, len - 1), TRUE))
    ELSE IF ~is_valid_field_name(name)
    THEN Returned(Field(name, TRUE))
    ELSE Returned(Field(name, FALSE))

\* Display writing the bare name whatever requires_quoting is.
FieldDisplayBare(f) == f.name

\* impl Display for Field / FieldBuf
FieldDisplay(f) ==
    IF f.requires_quoting THEN <<Quote>> \o f.name \o <<Quote>> ELSE f.name

\* Equality comparing the names only.
FieldEqByName(a, b) == a.name = b.name

\* #[derive(PartialEq)] on Field / FieldBuf: the fields of the struct are
\* compared in turn, name and then requires_quoting.
FieldEq(a, b) == a.name = b.name /\ a.requires_quoting = b.requires_quoting

\* A conversion that derives the flag again from the name instead of copying.
to_field_buf_rederived(f) == FieldFrom(f.name).val

\* Field::to_field_buf and FieldBuf::as_field: both members are copied.
to_field_buf(f) ==
    [name |-> f.name, requires_quoting |-> f.requires_quoting]
as_field(fb) ==
    [name |-> fb.name, requires_quoting |-> fb.requires_quoting]

-----------------------------------------------------------------------------
(* Specification SpecField: Field::from applied to a text *)

FieldChars == {"a", "1", Quote, Backslash, " "}

InitField ==
    /\ text \in TextsUpTo(FieldChars, MaxText)
    /\ field = Unset
    /\ text2 = Unset /\ field2 = Unset /\ eq = Unset
    /\ input = Unset /\ parsed = Unset /\ formatted = Unset /\ reparsed = Unset
    /\ path = Unset /\ needle = Unset /\ ret = Unset
    /\ doc = Unset /\ out = Unset

\* Field::from(text) / FieldBuf::from(text)
ConstructField ==
    /\ field = Unset
    /\ field' = FieldFrom(text)
    /\ UNCHANGED <<text, compareVars, parseVars, pathVars, queryVars>>

NextField == ConstructField

SpecField == InitField /\ [][NextField]_vars

-----------------------------------------------------------------------------
(* Specification SpecCompare: two Fields built from two texts and compared *)

InitCompare ==
    /\ text \in TextsUpTo(FieldChars, MaxText)
    /\ text2 \in TextsUpTo(FieldChars, MaxText)
    /\ field = Unset /\ field2 = Unset /\ eq = Unset
    /\ input = Unset /\ parsed = Unset /\ formatted = Unset /\ reparsed = Unset
    /\ path = Unset /\ needle = Unset /\ ret = Unset
    /\ doc = Unset /\ out = Unset

\* Field::from(text2) / FieldBuf::from(text2)
ConstructOther ==
    /\ field # Unset /\ field2 = Unset
    /\ field2' = FieldFrom(text2)
    /\ UNCHANGED <<text, field, text2, eq, parseVars, pathVars, queryVars>>

\* field == field2 (PartialEq::eq); a panicked construction left no Field
CompareFields ==
    /\ field # Unset /\ field2 # Unset /\ eq = Unset
    /\ ~field.panic /\ ~field2.panic
    /\ eq' = Set(FieldEq(field.val, field2.val))
    /\ UNCHANGED <<text, field, text2, field2, parseVars, pathVars, queryVars>>

NextCompare == ConstructField \/ ConstructOther \/ CompareFields

SpecCompare == InitCompare /\ [][NextCompare]_vars

-----------------------------------------------------------------------------
(* Specification SpecRebuild: test_field_buf_quickcheck, a FieldBuf rebuilt *)
(* from its own name and compared with the original                        *)

InitRebuild ==
    /\ text \in TextsUpTo(FieldChars, MaxText)
    /\ field = Unset
    /\ text2 = Unset /\ field2 = Unset /\ eq = Unset
    /\ input = Unset /\ parsed = Unset /\ formatted = Unset /\ reparsed = Unset
    /\ path = Unset /\ needle = Unset /\ ret = Unset
    /\ doc = Unset /\ out = Unset

\* let field_buf2: FieldBuf = field_buf.name.as_str().into();
Rebuild ==
    /\ field # Unset /\ ~field.panic /\ field2 = Unset
    /\ field2' = FieldFrom(field.val.name)
    /\ UNCHANGED <<text, field, text2, eq, parseVars, pathVars, queryVars>>

NextRebuild == ConstructField \/ Rebuild \/ CompareFields

SpecRebuild == InitRebuild /\ [][NextRebuild]_vars

-----------------------------------------------------------------------------
(* crates/view/src/segment.rs *)

\* Option<T>
None == [some |-> FALSE]
Some(v) == [some |-> TRUE, val |-> v]

\* enum Segment / SegmentBuf
SegField(f) == [tag |-> "Field", field |-> f]
SegIndex(i) == [tag |-> "Index", index |-> i]
SegCoalesce(fs) == [tag |-> "Coalesce", fields |-> fs]

is_field(seg) == seg.tag = "Field"
is_index(seg) == seg.tag = "Index"
is_coalesce(seg) == seg.tag = "Coalesce"

\* The derived PartialEq of Segment: same variant and equal payloads, a Field
\* payload comparing name and requires_quoting.
SegmentEq(a, b) == a = b

\* Display of an isize: the decimal digits, a leading "-" when negative.
DigitSeq == <<"0", "1", "2", "3", "4", "5", "6", "7", "8", "9">>

RECURSIVE NatText(_)
NatText(n) ==
    IF n < 10 THEN <<DigitSeq[n + 1]>>
    ELSE NatText(n \div 10) \o <<DigitSeq[(n % 10) + 1]>>

IntText(i) == IF i < 0 THEN <<"-">> \o NatText(-i) ELSE NatText(i)

\* Vec<String>::join(" | ")
RECURSIVE JoinFields(_, _)
JoinFields(fs, i) ==
    IF i > Len(fs) THEN <<>>
    ELSE IF i = Len(fs) THEN FieldDisplay(fs[i])
    ELSE FieldDisplay(fs[i]) \o <<" ", "|", " ">> \o JoinFields(fs, i + 1)

\* impl Display for Segment / SegmentBuf
SegmentDisplay(seg) ==
    CASE seg.tag = "Index" -> IntText(seg.index)
      [] seg.tag = "Field" -> FieldDisplay(seg.field)
      [] seg.tag = "Coalesce" -> <<"(">> \o JoinFields(seg.fields, 1) \o <<")">>

-----------------------------------------------------------------------------
(* crates/view/src/view_path.rs *)

\* maybe_next peeking for any next segment, whatever its kind.
maybe_next_any(segments, i) == i < Len(segments)

\* The peek of the Display loop: is the next segment a Field or a Coalesce?
maybe_next(segments, i) ==
    IF i < Len(segments)
    THEN is_field(segments[i + 1]) \/ is_coalesce(segments[i + 1])
    ELSE FALSE

\* One turn of the Display loop: what the match on (segment, maybe_next) writes.
DisplayArm(segment, next) ==
    CASE segment.tag = "Field" /\ next -> SegmentDisplay(segment) \o <<".">>
      [] segment.tag = "Field" /\ ~next -> SegmentDisplay(segment)
      [] segment.tag = "Index" /\ next ->
            <<"[">> \o SegmentDisplay(segment) \o <<"]", ".">>
      [] segment.tag = "Index" /\ ~next ->
            <<"[">> \o SegmentDisplay(segment) \o <<"]">>
      [] segment.tag = "Coalesce" /\ next -> SegmentDisplay(segment) \o <<".">>
      [] segment.tag = "Coalesce" /\ ~next -> SegmentDisplay(segment)

\* impl Display for ViewPath / ViewPathBuf: the while loop over the peekable
\* iterator, from segment i on, appending to what was written so far.
RECURSIVE DisplayLoop(_, _, _)
DisplayLoop(segments, i, written) ==
    IF i > Len(segments) THEN written
    ELSE DisplayLoop(segments, i + 1,
             written \o DisplayArm(segments[i], maybe_next(segments, i)))

ViewPathDisplay(segments) == DisplayLoop(segments, 1, <<>>)

\* impl Display for ViewPathBuf: the same loop over SegmentBuf values.
ViewPathBufDisplay(segments) == DisplayLoop(segments, 1, <<>>)

\* Segment::to_segment_buf: the variant is kept, every Field payload goes
\* through to_field_buf, an Index is copied.
to_segment_buf(seg) ==
    CASE seg.tag = "Field" -> SegField(to_field_buf(seg.field))
      [] seg.tag = "Index" -> SegIndex(seg.index)
      [] seg.tag = "Coalesce" ->
            SegCoalesce([j \in 1..Len(seg.fields) |-> to_field_buf(seg.fields[j])])

\* SegmentBuf::as_segment
as_segment(seg) ==
    CASE seg.tag = "Field" -> SegField(as_field(seg.field))
      [] seg.tag = "Index" -> SegIndex(seg.index)
      [] seg.tag = "Coalesce" ->
            SegCoalesce([j \in 1..Len(seg.fields) |-> as_field(seg.fields[j])])

\* ViewPath::into_buf: impl From<ViewPath> for ViewPathBuf
into_buf(segments) ==
    [j \in 1..Len(segments) |-> to_segment_buf(segments[j])]

\* ViewPathBuf::as_view_path: impl From<&ViewPathBuf> for ViewPath
as_view_path(segments) ==
    [j \in 1..Len(segments) |-> as_segment(segments[j])]

\* ViewPath::root
root == <<>>

\* ViewPath::is_root: VecDeque::is_empty
is_root(segments) == Len(segments) = 0

\* ViewPath::iter, collected: the segments the iterator yields, in its order.
iter(segments) == [j \in 1..Len(segments) |-> segments[j]]

\* ViewPath::starts_with: needle.iter().zip(&self.segments).all(|(n, s)| n == s);
\* zip stops at the shorter of the two.
Min(a, b) == IF a < b THEN a ELSE b

\* starts_with comparing the whole paths instead of the zipped pairs.
starts_with_whole(segments, prefix) == prefix = segments

starts_with(segments, prefix) ==
    \A i \in 1..Min(Len(prefix), Len(segments)) :
        SegmentEq(prefix[i], segments[i])

-----------------------------------------------------------------------------
(* Specification SpecPath: a ViewPath built and used programmatically *)

FieldA == Field(<<"a">>, FALSE)
FieldAQuoted == Field(<<"a">>, TRUE)
FieldBC == Field(<<"b", " ", "c">>, TRUE)

\* The segments the operations are called with.
PathSegments ==
    { SegField(FieldA), SegField(FieldAQuoted),
      SegIndex(0), SegIndex(-12),
      SegCoalesce(<<FieldA>>), SegCoalesce(<<FieldA, FieldBC>>) }

\* All paths of at most n of these segments.
RECURSIVE PathsUpTo(_)
PathsUpTo(n) ==
    IF n = 0 THEN {<<>>}
    ELSE LET shorter == PathsUpTo(n - 1)
         IN shorter \cup {Append(p, s) : p \in shorter, s \in PathSegments}

InitPath ==
    /\ path = root
    /\ needle = Unset
    /\ ret = [op |-> "root"]
    /\ text = Unset /\ field = Unset
    /\ text2 = Unset /\ field2 = Unset /\ eq = Unset
    /\ input = Unset /\ parsed = Unset /\ formatted = Unset /\ reparsed = Unset
    /\ doc = Unset /\ out = Unset

\* ViewPath::push_back
PushBack(segment) ==
    /\ Len(path) < MaxSegs
    /\ path' = Append(path, segment)
    /\ ret' = [op |-> "push_back", arg |-> segment]
    /\ UNCHANGED <<needle, fieldVars, parseVars, queryVars>>

\* ViewPath::push_front
PushFront(segment) ==
    /\ Len(path) < MaxSegs
    /\ path' = <<segment>> \o path
    /\ ret' = [op |-> "push_front", arg |-> segment]
    /\ UNCHANGED <<needle, fieldVars, parseVars, queryVars>>

\* ViewPath::pop_back
PopBack ==
    /\ path' = IF path = <<>> THEN path ELSE SubSeq(path, 1, Len(path) - 1)
    /\ ret' = [op |-> "pop_back",
               val |-> IF path = <<>> THEN None ELSE Some(path[Len(path)])]
    /\ UNCHANGED <<needle, fieldVars, parseVars, queryVars>>

\* pop_front taking the segment from the back.
PopFrontFromBack ==
    /\ path' = IF path = <<>> THEN path ELSE SubSeq(path, 1, Len(path) - 1)
    /\ ret' = [op |-> "pop_front",
               val |-> IF path = <<>> THEN None ELSE Some(path[Len(path)])]
    /\ UNCHANGED <<needle, fieldVars, parseVars, queryVars>>

\* ViewPath::pop_front
PopFront ==
    /\ path' = IF path = <<>> THEN path ELSE Tail(path)
    /\ ret' = [op |-> "pop_front",
               val |-> IF path = <<>> THEN None ELSE Some(Head(path))]
    /\ UNCHANGED <<needle, fieldVars, parseVars, queryVars>>

\* ViewPath::extend
Extend(other) ==
    /\ Len(path) + Len(other) <= MaxSegs
    /\ path' = path \o other
    /\ ret' = [op |-> "extend", arg |-> other]
    /\ UNCHANGED <<needle, fieldVars, parseVars, queryVars>>

\* ViewPath::to_string (impl Display)
ToText ==
    /\ ret' = [op |-> "to_string", val |-> ViewPathDisplay(path)]
    /\ UNCHANGED <<path, needle, fieldVars, parseVars, queryVars>>

\* ViewPath::is_root
IsRoot ==
    /\ ret' = [op |-> "is_root", val |-> is_root(path)]
    /\ UNCHANGED <<path, needle, fieldVars, parseVars, queryVars>>

\* ViewPath::iter, run to its end
Iter ==
    /\ ret' = [op |-> "iter", val |-> iter(path)]
    /\ UNCHANGED <<path, needle, fieldVars, parseVars, queryVars>>

\* ViewPath::into_buf, with path the segments of a borrowed ViewPath: the
\* owned path built and the texts the two paths format to.
IntoBuf ==
    /\ ret' = [op |-> "into_buf",
               val |-> into_buf(path),
               from |-> ViewPathDisplay(path),
               to |-> ViewPathBufDisplay(into_buf(path))]
    /\ UNCHANGED <<path, needle, fieldVars, parseVars, queryVars>>

\* ViewPathBuf::as_view_path, with path the segments of an owned ViewPathBuf:
\* the borrowed path built, the texts the two paths format to, and the owned
\* path that into_buf makes of the borrowed one.
AsViewPath ==
    /\ ret' = [op |-> "as_view_path",
               val |-> as_view_path(path),
               from |-> ViewPathBufDisplay(path),
               to |-> ViewPathDisplay(as_view_path(path)),
               back |-> into_buf(as_view_path(path))]
    /\ UNCHANGED <<path, needle, fieldVars, parseVars, queryVars>>

NextPath ==
    \/ \E segment \in PathSegments : PushBack(segment)
    \/ \E segment \in PathSegments : PushFront(segment)
    \/ PopBack
    \/ PopFront
    \/ \E other \in PathsUpTo(MaxNeedle) : Extend(other)
    \/ ToText
    \/ IsRoot
    \/ Iter
    \/ IntoBuf
    \/ AsViewPath

SpecPath == InitPath /\ [][NextPath]_vars

-----------------------------------------------------------------------------
(* Specification SpecPrefix: starts_with applied to a path and a needle *)

InitPrefix ==
    /\ path \in PathsUpTo(MaxSegs)
    /\ needle \in PathsUpTo(MaxNeedle)
    /\ ret = [op |-> "new"]
    /\ text = Unset /\ field = Unset
    /\ text2 = Unset /\ field2 = Unset /\ eq = Unset
    /\ input = Unset /\ parsed = Unset /\ formatted = Unset /\ reparsed = Unset
    /\ doc = Unset /\ out = Unset

\* ViewPath::starts_with
StartsWith ==
    /\ ret.op = "new"
    /\ ret' = [op |-> "starts_with", val |-> starts_with(path, needle)]
    /\ UNCHANGED <<path, needle, fieldVars, parseVars, queryVars>>

NextPrefix == StartsWith

SpecPrefix == InitPrefix /\ [][NextPrefix]_vars

-----------------------------------------------------------------------------
(* serde_json::Value, as crates/ejson uses it *)

Null == [tag |-> "Null"]
Bool(b) == [tag |-> "Bool", b |-> b]
Number(n) == [tag |-> "Number", n |-> n]
String(s) == [tag |-> "String", s |-> s]
Array(items) == [tag |-> "Array", items |-> items]
\* An object is the sequence of its members in the map's iteration order; the
\* keys of one object are distinct.
Member(k, v) == [key |-> k, value |-> v]
Object(members) == [tag |-> "Object", members |-> members]

\* Map::get(name)
MapGet(m, name) ==
    IF \E j \in 1..Len(m) : m[j].key = name
    THEN Some(m[CHOOSE j \in 1..Len(m) : m[j].key = name].value)
    ELSE None

\* bool::to_string, Number::to_string (of an integer) and the content of a
\* String: the text the nest_find_value predicate compares.
ValueText(v) ==
    CASE v.tag = "Bool" ->
            IF v.b THEN <<"t", "r", "u", "e">> ELSE <<"f", "a", "l", "s", "e">>
      [] v.tag = "Number" -> IntText(v.n)
      [] v.tag = "String" -> v.s

-----------------------------------------------------------------------------
(* crates/ejson/src/lib.rs *)

\* The cast taking the magnitude of a negative index.
AsUsizeMagnitude(i) == IF i < 0 THEN -i ELSE i

\* i as usize, for i: isize, on a machine word of WordBits bits.
AsUsize(i) == i % (2 ^ WordBits)

\* The Coalesce loop keeping the last member found instead of the first.
RECURSIVE CoalesceLoopLast(_, _, _)
CoalesceLoopLast(m, c, j) ==
    IF j > Len(c) THEN None
    ELSE LET later == CoalesceLoopLast(m, c, j + 1)
         IN IF later.some THEN later ELSE MapGet(m, c[j].name)

\* search_segment, Segment::Coalesce arm: the for loop from field j on.
RECURSIVE CoalesceLoop(_, _, _)
CoalesceLoop(m, c, j) ==
    IF j > Len(c) THEN None
    ELSE LET v == MapGet(m, c[j].name)
         IN IF v.some THEN v ELSE CoalesceLoop(m, c, j + 1)

search_segment(value, seg) ==
    CASE seg.tag = "Field" ->
            IF value.tag = "Object"
            THEN MapGet(value.members, seg.field.name)
            ELSE None
      [] seg.tag = "Index" ->
            IF value.tag = "Array"
            THEN LET i == AsUsize(seg.index)
                 IN IF i < Len(value.items) THEN Some(value.items[i + 1]) ELSE None
            ELSE None
      [] seg.tag = "Coalesce" ->
            IF value.tag = "Object"
            THEN CoalesceLoop(value.members, seg.fields, 1)
            ELSE None

\* A search that goes back to a later alternative of a Coalesce when the rest
\* of the path fails under the first present one.
RECURSIVE SearchLoopBacktracking(_, _, _)
SearchLoopBacktracking(value, segments, i) ==
    IF i > Len(segments) THEN Some(value)
    ELSE IF is_coalesce(segments[i]) /\ value.tag = "Object"
    THEN LET c == segments[i].fields
             under(j) == MapGet(value.members, c[j].name)
             good == {j \in 1..Len(c) :
                        /\ under(j).some
                        /\ SearchLoopBacktracking(under(j).val, segments, i + 1).some}
         IN IF good = {} THEN None
            ELSE LET j == CHOOSE k \in good : \A l \in good : k <= l
                 IN SearchLoopBacktracking(under(j).val, segments, i + 1)
    ELSE LET v == search_segment(value, segments[i])
         IN IF v.some THEN SearchLoopBacktracking(v.val, segments, i + 1)
            ELSE None

\* search_path: the for loop over the path's segments, from segment i on.
RECURSIVE SearchLoop(_, _, _)
SearchLoop(value, segments, i) ==
    IF i > Len(segments) THEN Some(value)
    ELSE LET v == search_segment(value, segments[i])
         IN IF v.some THEN SearchLoop(v.val, segments, i + 1) ELSE None

search_path(value, segments) == SearchLoop(value, segments, 1)

\* The predicates handed to nest_find_by: the exact-text predicate of
\* nest_find_value, and closures that accept every value or none.
TextPredicate(expect) == [kind |-> "text", expect |-> expect]
AcceptAll == [kind |-> "all"]
AcceptNone == [kind |-> "none"]

\* predicate(value)
Accepts(predicate, v) ==
    CASE predicate.kind = "all" -> TRUE
      [] predicate.kind = "none" -> FALSE
      [] predicate.kind = "text" ->
            IF v.tag \in {"Bool", "Number", "String"}
            THEN ValueText(v) = predicate.expect
            ELSE FALSE

\* One (ViewPathBuf, &Value) pair of a result.
Entry(p, v) == [path |-> p, value |-> v]

\* for (mut path, vp) in paths { path.push_front(segment); ret.push((path, vp)) }
PushFrontAll(paths, segment) ==
    [j \in 1..Len(paths) |->
        Entry(<<segment>> \o paths[j].path, paths[j].value)]

RECURSIVE nest_find_by(_, _)
RECURSIVE ArrayLoop(_, _, _, _)
RECURSIVE ObjectLoop(_, _, _, _)

\* nest_find_by, Value::Array arm: the loop over a.iter().enumerate(), from
\* element i (counted from 1) on, ret being what was pushed so far. Its
\* outcome is the final ret, or a panic.
ArrayLoop(a, i, collected, predicate) ==
    IF i > Len(a) THEN Returned(collected)
    ELSE LET sub == nest_find_by(a[i], predicate)
         IN IF sub.panic THEN Panicked
            ELSE IF sub.val.some
            THEN ArrayLoop(a, i + 1,
                     collected \o PushFrontAll(sub.val.val, SegIndex(i - 1)),
                     predicate)
            ELSE ArrayLoop(a, i + 1, collected, predicate)

\* nest_find_by, Value::Object arm: the loop over the members, from member i
\* on. FieldBuf::from(k) runs once per path found under k, so a key it panics
\* on panics the search as soon as something is found under it.
ObjectLoop(m, i, collected, predicate) ==
    IF i > Len(m) THEN Returned(collected)
    ELSE LET sub == nest_find_by(m[i].value, predicate)
         IN IF sub.panic THEN Panicked
            ELSE IF sub.val.some
            THEN LET f == FieldFrom(m[i].key)
                 IN IF f.panic THEN Panicked
                    ELSE ObjectLoop(m, i + 1,
                             collected \o PushFrontAll(sub.val.val, SegField(f.val)),
                             predicate)
            ELSE ObjectLoop(m, i + 1, collected, predicate)

\* if ret.len() > 0 { Some(ret) } else { None }
SomeIfNonEmpty(collected) ==
    IF Len(collected) > 0 THEN Some(collected) ELSE None

\* nest_find_by: Returned(None), Returned(Some(entries)), or Panicked.
nest_find_by(value, predicate) ==
    CASE value.tag = "Null" -> Returned(None)
      [] value.tag \in {"Bool", "Number", "String"} ->
            IF Accepts(predicate, value)
            THEN Returned(Some(<<Entry(root, value)>>))
            ELSE Returned(None)
      [] value.tag = "Array" ->
            LET r == ArrayLoop(value.items, 1, <<>>, predicate)
            IN IF r.panic THEN Panicked ELSE Returned(SomeIfNonEmpty(r.val))
      [] value.tag = "Object" ->
            LET r == ObjectLoop(value.members, 1, <<>>, predicate)
            IN IF r.panic THEN Panicked ELSE Returned(SomeIfNonEmpty(r.val))

\* nest_find_value: the paths of nest_find_by under the exact-text predicate.
nest_find_value(value, expect) ==
    LET r == nest_find_by(value, TextPredicate(expect))
    IN IF r.panic THEN Panicked
       ELSE IF r.val.some
       THEN Returned(Some([j \in 1..Len(r.val.val) |-> r.val.val[j].path]))
       ELSE Returned(None)

-----------------------------------------------------------------------------
(* Documents of the model *)

Scalars == {Null, Bool(TRUE), Number(1), String(<<"1">>)}

\* All sequences of at most n elements of S.
RECURSIVE SeqsUpTo(_, _)
SeqsUpTo(S, n) ==
    IF n = 0 THEN {<<>>}
    ELSE LET shorter == SeqsUpTo(S, n - 1)
         IN shorter \cup {Append(q, e) : q \in shorter, e \in S}

\* The sequences of at most n scalars, and those with one element replaced
\* by an element of C: the children of a container with at most one nested
\* child.
Children(C, n) ==
    LET flat == SeqsUpTo(Scalars, n)
    IN flat \cup UNION { { [q EXCEPT ![j] = c] : j \in 1..Len(q), c \in C } : q \in flat }

\* The strictly increasing sequences of at most n indices into the keys: the
\* key sets of the objects, each in iteration order.
KeyChoices(nkeys, n) ==
    { q \in SeqsUpTo(1..nkeys, n) : \A j \in 1..(Len(q) - 1) : q[j] < q[j + 1] }

\* The objects over keys (a sequence, in the map's iteration order) with at
\* most n members and at most one nested child from C.
Objects(keys, C, n) ==
    UNION { { Object([j \in 1..Len(q) |-> Member(keys[q[j]], vs[j])])
                : vs \in {c \in Children(C, n) : Len(c) = Len(q)} }
            : q \in KeyChoices(Len(keys), n) }

\* The documents nested at most depth deep.
RECURSIVE DocsUpTo(_, _)
DocsUpTo(keys, depth) ==
    IF depth = 0 THEN Scalars
    ELSE LET C == DocsUpTo(keys, depth - 1)
         IN Scalars
            \cup {Array(q) : q \in Children(C, MaxArr)}
            \cup Objects(keys, C, MaxMembers)

\* {"a": [1, {"b": 1}]}, the document of the nest_find_value example.
ExampleDoc ==
    Object(<<Member(<<"a">>,
                    Array(<<Number(1),
                            Object(<<Member(<<"b">>, Number(1))>>)>>))>>)

-----------------------------------------------------------------------------
(* Specification SpecFind: nest_find_by / nest_find_value on a document *)

\* The keys of the searched documents, in byte order: the double quote alone,
\* "a" in double quotes, a, and a key that fails the identifier grammar.
FindKeys == << <<Quote>>, <<Quote, "a", Quote>>, <<"a">>, <<"b", " ", "c">> >>

FindPredicates ==
    {AcceptAll, AcceptNone, TextPredicate(<<"1">>),
     TextPredicate(<<"t", "r", "u", "e">>)}

InitFind ==
    /\ doc \in DocsUpTo(FindKeys, MaxDepth) \cup {ExampleDoc}
    /\ out = [op |-> "new"]
    /\ text = Unset /\ field = Unset
    /\ text2 = Unset /\ field2 = Unset /\ eq = Unset
    /\ input = Unset /\ parsed = Unset /\ formatted = Unset /\ reparsed = Unset
    /\ path = Unset /\ needle = Unset /\ ret = Unset

\* ejson::nest_find_by(&doc, predicate)
NestFindBy(predicate) ==
    /\ out.op = "new"
    /\ out' = [op |-> "nest_find_by", predicate |-> predicate,
               val |-> nest_find_by(doc, predicate)]
    /\ UNCHANGED <<doc, fieldVars, parseVars, pathVars>>

\* ejson::nest_find_value(&doc, expect)
NestFindValue(expect) ==
    /\ out.op = "new"
    /\ out' = [op |-> "nest_find_value", expect |-> expect,
               val |-> nest_find_value(doc, expect)]
    /\ UNCHANGED <<doc, fieldVars, parseVars, pathVars>>

NextFind ==
    \/ \E predicate \in FindPredicates : NestFindBy(predicate)
    \/ \E expect \in {<<"1">>, <<"t", "r", "u", "e">>, <<"2">>} : NestFindValue(expect)

SpecFind == InitFind /\ [][NextFind]_vars

-----------------------------------------------------------------------------
(* Specification SpecSegment: search_segment applied to a value *)

\* The keys of the resolved documents, in byte order.
ResolveKeys == << <<"c">>, <<"x">>, <<"y">> >>

\* The fields of the probing segments; no document has a member z.
ProbeFields ==
    { Field(<<"c">>, FALSE), Field(<<"x">>, FALSE), Field(<<"y">>, FALSE),
      Field(<<"z">>, FALSE) }

\* Every isize of the machine word.
IsizeRange == (-(2 ^ (WordBits - 1)))..(2 ^ (WordBits - 1) - 1)

ProbeSegments ==
    {SegField(f) : f \in ProbeFields}
        \cup {SegIndex(i) : i \in IsizeRange}
        \cup {SegCoalesce(c) : c \in SeqsUpTo(ProbeFields, MaxCoalesce)}

\* search_segment reads one level of the value: the values are the documents
\* of depth at most one.
InitSegment ==
    /\ doc \in DocsUpTo(ResolveKeys, 1)
    /\ out = [op |-> "new"]
    /\ text = Unset /\ field = Unset
    /\ text2 = Unset /\ field2 = Unset /\ eq = Unset
    /\ input = Unset /\ parsed = Unset /\ formatted = Unset /\ reparsed = Unset
    /\ path = Unset /\ needle = Unset /\ ret = Unset

\* ejson::search_segment(&doc, seg)
SearchSegment(seg) ==
    /\ out.op = "new"
    /\ out' = [op |-> "search_segment", seg |-> seg,
               val |-> search_segment(doc, seg)]
    /\ UNCHANGED <<doc, fieldVars, parseVars, pathVars>>

NextSegment == \E seg \in ProbeSegments : SearchSegment(seg)

SpecSegment == InitSegment /\ [][NextSegment]_vars

-----------------------------------------------------------------------------
(* Specification SpecSearch: search_path applied to a document and a path *)

\* The segments of the resolved paths.
SearchSegments ==
    { SegField(Field(<<"c">>, FALSE)), SegField(Field(<<"x">>, FALSE)),
      SegField(Field(<<"y">>, FALSE)), SegIndex(0), SegIndex(1),
      SegCoalesce(<<Field(<<"x">>, FALSE), Field(<<"y">>, FALSE)>>),
      SegCoalesce(<<Field(<<"y">>, FALSE), Field(<<"x">>, FALSE)>>) }

\* The root path and the paths of one and of two segments: a failure at the
\* first segment, at the second, or at none.
SearchPaths ==
    {<<>>} \cup {<<s>> : s \in SearchSegments}
           \cup {<<s, t>> : s \in SearchSegments, t \in SearchSegments}

\* A path of two segments reads two levels of the document.
InitSearch ==
    /\ doc \in DocsUpTo(ResolveKeys, 2)
    /\ out = [op |-> "new"]
    /\ text = Unset /\ field = Unset
    /\ text2 = Unset /\ field2 = Unset /\ eq = Unset
    /\ input = Unset /\ parsed = Unset /\ formatted = Unset /\ reparsed = Unset
    /\ path = Unset /\ needle = Unset /\ ret = Unset

\* ejson::search_path(&doc, segments)
SearchPath(segments) ==
    /\ out.op = "new"
    /\ out' = [op |-> "search_path", path |-> segments,
               val |-> search_path(doc, segments)]
    /\ UNCHANGED <<doc, fieldVars, parseVars, pathVars>>

NextSearch == \E segments \in SearchPaths : SearchPath(segments)

SpecSearch == InitSearch /\ [][NextSearch]_vars

-----------------------------------------------------------------------------
(* The path grammar of crates/view (path::ViewPathParser).  The grammar file  *)
(* that lalrpop_mod!(path) compiles is not among the sources; the lexer and   *)
(* parser below follow the grammar of the specification:                      *)
(*     path       := step*                                                    *)
(*     step       := dot-step | index-step                                    *)
(*     dot-step   := "."? ( field | coalesce )                                *)
(*     index-step := "[" signed-int "]"                                       *)
(*     field      := bare-ident | quoted-string                               *)
(*     coalesce   := "(" field ( "|" field )* ")"                             *)
(*     bare-ident := [0-9]* [A-Za-z_] [0-9A-Za-z_]*                           *)
(*     quoted     := '"' any-char-except-unescaped-quote* '"'                 *)
(* with white space skipped between tokens, as the generated lexer does and   *)
(* as parsing what Display writes ("(a | b)") requires.                       *)

WordChars == Digits \cup Letters \cup {"_"}
Punctuation == {".", "[", "]", "(", ")", "|"}
WhiteSpace == {" "}

Token(kind, lexeme) == [kind |-> kind, lexeme |-> lexeme]

Failed == [ok |-> FALSE]
Parsed(p) == [ok |-> TRUE, path |-> p]

\* The first position from j on that is outside the set cs (Len + 1 if none).
RECURSIVE SkipWhile(_, _, _)
SkipWhile(s, j, cs) ==
    IF j <= Len(s) /\ s[j] \in cs THEN SkipWhile(s, j + 1, cs) ELSE j

\* The position of the first unescaped double quote from j on, 0 if there is
\* none; a double quote right after a backslash is escaped.
RECURSIVE ClosingQuote(_, _)
ClosingQuote(s, j) ==
    IF j > Len(s) THEN 0
    ELSE IF s[j] = Quote THEN j
    ELSE IF s[j] = Backslash /\ j + 1 <= Len(s) /\ s[j + 1] = Quote
    THEN ClosingQuote(s, j + 2)
    ELSE ClosingQuote(s, j + 1)

\* The value of a run of decimal digits.
RECURSIVE DigitsValue(_)
DigitsValue(ds) ==
    IF ds = <<>> THEN 0
    ELSE 10 * DigitsValue(SubSeq(ds, 1, Len(ds) - 1))
             + (CHOOSE d \in 0..9 : DigitSeq[d + 1] = ds[Len(ds)])

\* The tokens of s from position j on, appended to toks; Failed on a
\* character that starts no token, an unterminated quoted string, or a "-"
\* without digits.
RECURSIVE Lex(_, _, _)
Lex(s, j, toks) ==
    LET i == SkipWhile(s, j, WhiteSpace)
    IN IF i > Len(s) THEN [ok |-> TRUE, toks |-> toks]
       ELSE IF s[i] \in Punctuation
       THEN Lex(s, i + 1, Append(toks, Token(s[i], <<s[i]>>)))
       ELSE IF s[i] = Quote
       THEN LET close == ClosingQuote(s, i + 1)
            IN IF close = 0 THEN Failed
               ELSE Lex(s, close + 1,
                        Append(toks, Token("quoted", SubSeq(s, i, close))))
       ELSE IF s[i] \in WordChars
       THEN LET end == SkipWhile(s, i, WordChars)
                run == SubSeq(s, i, end - 1)
            IN IF \A k \in 1..Len(run) : run[k] \in Digits
               THEN Lex(s, end, Append(toks, Token("int", run)))
               ELSE Lex(s, end, Append(toks, Token("ident", run)))
       ELSE IF s[i] = "-"
       THEN LET end == SkipWhile(s, i + 1, Digits)
            IN IF end = i + 1 THEN Failed
               ELSE Lex(s, end, Append(toks, Token("int", SubSeq(s, i, end - 1))))
       ELSE Failed

\* signed-int: the isize an int token denotes; Failed when it does not fit
\* the machine word.
IntOf(lexeme) ==
    LET v == IF lexeme[1] = "-" THEN -DigitsValue(Tail(lexeme))
             ELSE DigitsValue(lexeme)
    IN IF -(2 ^ (WordBits - 1)) <= v /\ v <= 2 ^ (WordBits - 1) - 1
       THEN [ok |-> TRUE, val |-> v]
       ELSE Failed

IsFieldToken(t) == t.kind \in {"ident", "quoted"}

\* field: the Field of a bare identifier or of a quoted string, built from
\* the token's text (a quoted token keeps its quotes, which Field::from strips
\* while setting requires_quoting).
FieldOfToken(t) == FieldFrom(t.lexeme).val

\* coalesce, after its "(" : field ( "|" field )* ")" from token i on. Yields
\* the fields and the position after the ")".
RECURSIVE ParseAlternatives(_, _, _)
ParseAlternatives(toks, i, fields) ==
    IF i + 1 > Len(toks) \/ ~IsFieldToken(toks[i]) THEN Failed
    ELSE LET more == Append(fields, FieldOfToken(toks[i]))
         IN IF toks[i + 1].kind = ")"
            THEN [ok |-> TRUE, fields |-> more, next |-> i + 2]
            ELSE IF toks[i + 1].kind = "|"
            THEN ParseAlternatives(toks, i + 2, more)
            ELSE Failed

\* path := step* : the steps from token i on, appended to segments.
RECURSIVE ParseSteps(_, _, _)
ParseSteps(toks, i, segments) ==
    IF i > Len(toks) THEN Parsed(segments)
    ELSE IF toks[i].kind = "["
    THEN IF i + 2 <= Len(toks) /\ toks[i + 1].kind = "int"
                               /\ toks[i + 2].kind = "]"
         THEN LET n == IntOf(toks[i + 1].lexeme)
              IN IF n.ok
                 THEN ParseSteps(toks, i + 3, Append(segments, SegIndex(n.val)))
                 ELSE Failed
         ELSE Failed
    ELSE LET k == IF toks[i].kind = "." THEN i + 1 ELSE i
         IN IF k > Len(toks) THEN Failed
            ELSE IF IsFieldToken(toks[k])
            THEN ParseSteps(toks, k + 1,
                            Append(segments, SegField(FieldOfToken(toks[k]))))
            ELSE IF toks[k].kind = "("
            THEN LET c == ParseAlternatives(toks, k + 1, <<>>)
                 IN IF c.ok
                    THEN ParseSteps(toks, c.next,
                                    Append(segments, SegCoalesce(c.fields)))
                    ELSE Failed
            ELSE Failed

\* path::ViewPathParser::new().parse(s)
ViewPathParser(s) ==
    LET lexed == Lex(s, 1, <<>>)
    IN IF lexed.ok THEN ParseSteps(lexed.toks, 1, <<>>) ELSE Failed

\* parser::parse_view_path: the parser's result, its error formatted.
parse_view_path(s) == ViewPathParser(s)

\* ViewPath::parse_str: parse_view_path, its error wrapped in InvalidPath.
parse_str(s) == parse_view_path(s)

-----------------------------------------------------------------------------
(* Specification SpecParse: a path string parsed, formatted and parsed again *)

PathChars == {"a", "0", "1", "-", ".", "[", "]", "(", ")", "|", Quote, Backslash}

InitParse ==
    /\ \E n \in 0..MaxInput : input \in [1..n -> PathChars]
    /\ parsed = Unset /\ formatted = Unset /\ reparsed = Unset
    /\ text = Unset /\ field = Unset
    /\ text2 = Unset /\ field2 = Unset /\ eq = Unset
    /\ path = Unset /\ needle = Unset /\ ret = Unset
    /\ doc = Unset /\ out = Unset

\* ViewPath::parse_str(input)
ParseStr ==
    /\ parsed = Unset
    /\ parsed' = parse_str(input)
    /\ UNCHANGED <<input, formatted, reparsed, fieldVars, pathVars, queryVars>>

\* to_string() of the parsed path
FormatParsed ==
    /\ parsed # Unset /\ parsed.ok
    /\ formatted = Unset
    /\ formatted' = Set(ViewPathDisplay(parsed.path))
    /\ UNCHANGED <<input, parsed, reparsed, fieldVars, pathVars, queryVars>>

\* ViewPath::parse_str(formatted)
ParseFormatted ==
    /\ formatted # Unset
    /\ reparsed = Unset
    /\ reparsed' = parse_str(formatted.val)
    /\ UNCHANGED <<input, parsed, formatted, fieldVars, pathVars, queryVars>>

NextParse == ParseStr \/ FormatParsed \/ ParseFormatted

SpecParse == InitParse /\ [][NextParse]_vars

-----------------------------------------------------------------------------
(* C6 *)

\* The identifier grammar [0-9]*[A-Za-z_][0-9A-Za-z_]*, as a left-to-right
\* scan: skip digits, take one letter or underscore, then only word characters.
RECURSIVE AllWord(_, _)
AllWord(name, i) ==
    IF i > Len(name) THEN TRUE
    ELSE name[i] \in Digits \cup Letters \cup {"_"} /\ AllWord(name, i + 1)

RECURSIVE IdentFrom(_, _)
IdentFrom(name, i) ==
    IF i > Len(name) THEN FALSE
    ELSE IF name[i] \in Digits THEN IdentFrom(name, i + 1)
    ELSE name[i] \in Letters \cup {"_"} /\ AllWord(name, i + 1)

IdentifierGrammar(name) == IdentFrom(name, 1)

QuoteWrapped(t) == Len(t) >= 1 /\ Head(t) = Quote /\ t[Len(t)] = Quote

\* C6: constructing a Field from a text that begins and ends with a double
\* quote strips exactly one leading and one trailing quote and sets
\* requires_quoting; from any other text the name is the text and
\* requires_quoting is true iff the text fails the identifier grammar.
C6_FieldFromText ==
    field # Unset =>
        /\ field.panic = FALSE
        /\ IF QuoteWrapped(text)
           THEN /\ <<Quote>> \o field.val.name \o <<Quote>> = text
                /\ field.val.requires_quoting = TRUE
           ELSE /\ field.val.name = text
                /\ field.val.requires_quoting = ~IdentifierGrammar(text)
        /\ field.val.requires_quoting
               = (QuoteWrapped(text) \/ ~IdentifierGrammar(text))

\* C6 away from its failing input: the statement holds of every other text.
C6_ExceptSingleQuote == text # <<Quote>> => C6_FieldFromText

-----------------------------------------------------------------------------
(* C7 *)

\* A field as the claim renders it: its name, in double quotes iff
\* requires_quoting.
C7_FieldText(f) ==
    (IF f.requires_quoting THEN <<Quote>> ELSE <<>>)
        \o f.name \o (IF f.requires_quoting THEN <<Quote>> ELSE <<>>)

\* The first n fields joined by " | ".
RECURSIVE C7_Joined(_, _)
C7_Joined(fs, n) ==
    IF n = 0 THEN <<>>
    ELSE IF n = 1 THEN C7_FieldText(fs[1])
    ELSE C7_Joined(fs, n - 1) \o <<" ", "|", " ">> \o C7_FieldText(fs[n])

C7_Rendering(seg) ==
    IF seg.tag = "Index" THEN <<"[">> \o IntText(seg.index) \o <<"]">>
    ELSE IF seg.tag = "Field" THEN C7_FieldText(seg.field)
    ELSE <<"(">> \o C7_Joined(seg.fields, Len(seg.fields)) \o <<")">>

C7_Dot(p, i) ==
    IF i + 1 <= Len(p) /\ p[i + 1].tag \in {"Field", "Coalesce"}
    THEN <<".">> ELSE <<>>

\* The renderings of the first n segments, each followed by its dot.
RECURSIVE C7_Concat(_, _)
C7_Concat(p, n) ==
    IF n = 0 THEN <<>>
    ELSE C7_Concat(p, n - 1) \o C7_Rendering(p[n]) \o C7_Dot(p, n)

\* C7: formatting a path yields, front to back, each segment's rendering
\* ("[i]" for an Index, the name in quotes iff requires_quoting for a Field,
\* "(" fields joined by " | " ")" for a Coalesce) followed by "." exactly when
\* the next segment exists and is a Field or a Coalesce; the root path formats
\* as the empty string.
C7_FormatIsConcatenation ==
    ret.op = "to_string" =>
        /\ ret.val = C7_Concat(path, Len(path))
        /\ path = root => ret.val = <<>>

\* [-12].(a)."a" : an Index before a one-field Coalesce before a quoted Field.
C7_Witness ==
    /\ ret.op = "to_string"
    /\ path = <<SegIndex(-12), SegCoalesce(<<FieldA>>), SegField(FieldAQuoted)>>
    /\ ret.val = <<"[", "-", "1", "2", "]", ".", "(", "a", ")", ".",
                   Quote, "a", Quote>>

-----------------------------------------------------------------------------
(* C10 *)

\* C10: starts_with(prefix) is true if every segment of prefix equals the
\* segment of the path at the same position, true for the root prefix, and
\* false when some segment of prefix differs from the path's segment at the
\* same position.
C10_StartsWith ==
    ret.op = "starts_with" =>
        LET prefix == needle
        IN /\ (\A i \in 1..Len(prefix) : i <= Len(path) /\ prefix[i] = path[i])
                  => ret.val = TRUE
           /\ prefix = root => ret.val = TRUE
           /\ (\E i \in 1..Len(prefix) : i <= Len(path) /\ prefix[i] # path[i])
                  => ret.val = FALSE

\* A two-segment prefix of a three-segment path.
C10_Witness ==
    /\ ret.op = "starts_with"
    /\ path = <<SegField(FieldA), SegIndex(0), SegCoalesce(<<FieldA>>)>>
    /\ needle = <<SegField(FieldA), SegIndex(0)>>
    /\ ret.val = TRUE

-----------------------------------------------------------------------------
(* C2 *)

\* The entries of a nest_find_by outcome that returned: none when it is None.
ReportedEntries(outcome) ==
    IF outcome.val.some THEN outcome.val.val ELSE <<>>

\* C2: every pair (path, value) that nest_find_by returns satisfies
\* search_path(document, path) = that value, and the predicate accepts
\* the value.
C2_ReturnedPathsReachMatch ==
    (out.op = "nest_find_by" /\ ~out.val.panic) =>
        \A j \in 1..Len(ReportedEntries(out.val)) :
            LET e == ReportedEntries(out.val)[j]
            IN /\ search_path(doc, e.path) = Some(e.value)
               /\ Accepts(out.predicate, e.value)

\* C2 on the documents none of whose keys is wrapped in double quotes.
RECURSIVE NoQuoteWrappedKey(_)
NoQuoteWrappedKey(v) ==
    CASE v.tag = "Array" ->
            \A j \in 1..Len(v.items) : NoQuoteWrappedKey(v.items[j])
      [] v.tag = "Object" ->
            \A j \in 1..Len(v.members) :
                /\ ~QuoteWrapped(v.members[j].key)
                /\ NoQuoteWrappedKey(v.members[j].value)
      [] OTHER -> TRUE

C2_UnlessQuoteWrappedKey ==
    NoQuoteWrappedKey(doc) => C2_ReturnedPathsReachMatch

-----------------------------------------------------------------------------
(* C3 *)

\* A node of a document: the steps from the root to it (array positions and
\* object keys, outermost first) and its value.
Node(steps, v) == [steps |-> steps, value |-> v]
AtIndex(i) == [index |-> i]
AtKey(k) == [key |-> k]

Below(step, nodes) ==
    [j \in 1..Len(nodes) |-> Node(<<step>> \o nodes[j].steps, nodes[j].value)]

\* The bool, number and string nodes of v that the predicate accepts, in
\* document order.
RECURSIVE AcceptedNodes(_, _)
RECURSIVE AcceptedUnder(_, _, _)
AcceptedNodes(v, predicate) ==
    IF v.tag \in {"Bool", "Number", "String"}
    THEN IF Accepts(predicate, v) THEN <<Node(<<>>, v)>> ELSE <<>>
    ELSE IF v.tag \in {"Array", "Object"}
    THEN AcceptedUnder(v, predicate, 1)
    ELSE <<>>

\* Those below the children of the container v from child j on.
AcceptedUnder(v, predicate, j) ==
    IF v.tag = "Array"
    THEN IF j > Len(v.items) THEN <<>>
         ELSE Below(AtIndex(j - 1), AcceptedNodes(v.items[j], predicate))
                  \o AcceptedUnder(v, predicate, j + 1)
    ELSE IF j > Len(v.members) THEN <<>>
         ELSE Below(AtKey(v.members[j].key),
                    AcceptedNodes(v.members[j].value, predicate))
                  \o AcceptedUnder(v, predicate, j + 1)

\* The path the claim gives a node: Index(i) for an array position i, the
\* Field built from k for a member k.
PathTo(steps) ==
    [j \in 1..Len(steps) |->
        IF "index" \in DOMAIN steps[j]
        THEN SegIndex(steps[j].index)
        ELSE SegField(FieldFrom(steps[j].key).val)]

C3_ExactEntries ==
    LET nodes == AcceptedNodes(doc, out.predicate)
    IN ReportedEntries(out.val)
           = [j \in 1..Len(nodes) |-> Entry(PathTo(nodes[j].steps), nodes[j].value)]

\* C3: nest_find_by reports exactly one entry for each bool, number or string
\* node the predicate accepts and no other entry (null, array and object nodes
\* are never reported); the entry's path lists, outermost first, Index(i) for
\* each array position and the Field built from k for each member k on the way
\* to the node.
C3_ExactlyTheAcceptedScalars ==
    out.op = "nest_find_by" => (~out.val.panic /\ C3_ExactEntries)

\* C3 on the searches that return.
C3_UnlessPanicked ==
    (out.op = "nest_find_by" /\ ~out.val.panic) => C3_ExactEntries

-----------------------------------------------------------------------------
(* C8 *)

\* Some bool, number or string node of v is accepted by the predicate.
RECURSIVE SomeScalarAccepted(_, _)
SomeScalarAccepted(v, predicate) ==
    CASE v.tag \in {"Bool", "Number", "String"} -> Accepts(predicate, v)
      [] v.tag = "Array" ->
            \E j \in 1..Len(v.items) : SomeScalarAccepted(v.items[j], predicate)
      [] v.tag = "Object" ->
            \E j \in 1..Len(v.members) :
                SomeScalarAccepted(v.members[j].value, predicate)
      [] OTHER -> FALSE

C8_AbsentOrNonEmpty ==
    /\ out.val.val = None <=> ~SomeScalarAccepted(doc, out.predicate)
    /\ out.val.val # None =>
           (out.val.val.some /\ Len(out.val.val.val) >= 1)

\* C8: at every level (the documents of the model are closed under taking
\* subtrees) the result of nest_find_by is None iff no scalar of the subtree
\* is accepted by the predicate, and otherwise a list of at least one entry.
C8_AbsentIffNoMatch ==
    out.op = "nest_find_by" => (~out.val.panic /\ C8_AbsentOrNonEmpty)

\* C8 on the searches that return.
C8_UnlessPanicked ==
    (out.op = "nest_find_by" /\ ~out.val.panic) => C8_AbsentOrNonEmpty

-----------------------------------------------------------------------------
(* C9 *)

\* The text form of a scalar, as the claim gives it.
TextForm(v) ==
    IF v.tag = "Bool" THEN (IF v.b THEN <<"t", "r", "u", "e">>
                                   ELSE <<"f", "a", "l", "s", "e">>)
    ELSE IF v.tag = "Number" THEN IntText(v.n)
    ELSE v.s

\* The steps to the bool, number and string nodes of v whose text form is t.
RECURSIVE StepsToText(_, _)
StepsToText(v, t) ==
    CASE v.tag \in {"Bool", "Number", "String"} ->
            IF TextForm(v) = t THEN {<<>>} ELSE {}
      [] v.tag = "Array" ->
            UNION { { <<AtIndex(j - 1)>> \o q : q \in StepsToText(v.items[j], t) }
                    : j \in 1..Len(v.items) }
      [] v.tag = "Object" ->
            UNION { { <<AtKey(v.members[j].key)>> \o q
                        : q \in StepsToText(v.members[j].value, t) }
                    : j \in 1..Len(v.members) }
      [] OTHER -> {}

C9_ExactPaths ==
    LET matching == StepsToText(doc, out.expect)
        returned == IF out.val.val.some
                    THEN {out.val.val.val[j] : j \in 1..Len(out.val.val.val)}
                    ELSE {}
    IN /\ out.val.val = None <=> matching = {}
       /\ returned = {PathTo(q) : q \in matching}
       /\ (doc = ExampleDoc /\ out.expect = <<"1">>) =>
              {ViewPathDisplay(p) : p \in returned}
                  = { <<"a", "[", "0", "]">>, <<"a", "[", "1", "]", ".", "b">> }

\* C9: nest_find_value(document, t) returns exactly the paths (as a set) of
\* the scalar nodes whose text form equals t, and is absent when no scalar
\* matches; for {"a": [1, {"b": 1}]} and t = "1" the set is { a[0], a[1].b }.
C9_FindValue ==
    out.op = "nest_find_value" => (~out.val.panic /\ C9_ExactPaths)

\* C9 on the searches that return.
C9_UnlessPanicked ==
    (out.op = "nest_find_value" /\ ~out.val.panic) => C9_ExactPaths

\* The example of C9 is computed.
C9_ExampleReached ==
    ~(doc = ExampleDoc /\ out.op = "nest_find_value" /\ out.expect = <<"1">>)

-----------------------------------------------------------------------------
(* C4 *)

\* The object has a member named by the field.
Present(object, f) ==
    \E j \in 1..Len(object.members) : object.members[j].key = f.name

\* The value of that member.
MemberOf(object, f) ==
    LET j == CHOOSE j \in 1..Len(object.members) : object.members[j].key = f.name
    IN object.members[j].value

\* C4: a Coalesce(fields) segment resolves, against an object, to the member
\* of the first listed field that is present, and to not-found only when none
\* is present; against any other value it resolves to not-found.
C4_CoalesceFirstPresent ==
    (out.op = "search_segment" /\ out.seg.tag = "Coalesce") =>
        LET fields == out.seg.fields
            present == {j \in 1..Len(fields) : Present(doc, fields[j])}
        IN IF doc.tag # "Object" THEN out.val = None
           ELSE IF present = {} THEN out.val = None
           ELSE \E j \in present :
                    /\ \A k \in present : j <= k
                    /\ out.val = Some(MemberOf(doc, fields[j]))

\* (y|x) against {"x": 1, "y": "1"} yields "1", and (z|y) skips the absent z.
C4_Witness ==
    /\ out.op = "search_segment"
    /\ doc = Object(<<Member(<<"x">>, Number(1)), Member(<<"y">>, String(<<"1">>))>>)
    /\ out.seg \in { SegCoalesce(<<Field(<<"y">>, FALSE), Field(<<"x">>, FALSE)>>),
                     SegCoalesce(<<Field(<<"z">>, FALSE), Field(<<"y">>, FALSE)>>) }
    /\ out.val = Some(String(<<"1">>))

-----------------------------------------------------------------------------
(* C5 *)

\* C5: an Index(i) segment resolves, against an array of length n, to the
\* element at offset i when 0 <= i < n and to not-found for every other i, in
\* particular for every negative i; against any other value it resolves to
\* not-found.
C5_IndexInRange ==
    (out.op = "search_segment" /\ out.seg.tag = "Index") =>
        LET i == out.seg.index
        IN /\ IF doc.tag = "Array" /\ 0 <= i /\ i < Len(doc.items)
              THEN out.val = Some(doc.items[i + 1])
              ELSE out.val = None
           /\ i < 0 => out.val = None

\* [-1] against a two-element array is not-found.
C5_Witness ==
    /\ out.op = "search_segment"
    /\ doc = Array(<<Number(1), Null>>)
    /\ out.seg = SegIndex(-1)
    /\ out.val = None

-----------------------------------------------------------------------------
(* C1 *)

\* C1: for every path string the parser accepts, formatting the parsed path
\* and parsing the result succeeds and yields an equal path (same segments in
\* the same order, same field names, same quoting flags).
C1_RoundTrip ==
    reparsed # Unset => (reparsed.ok /\ reparsed.path = parsed.path)

\* "\"".a : a quoted field whose name is an escaped quote, then a bare field.
C1_Witness ==
    /\ input = <<Quote, Backslash, Quote, Quote, "a">>
    /\ parsed = Parsed(<<SegField(Field(<<Backslash, Quote>>, TRUE)),
                         SegField(Field(<<"a">>, FALSE))>>)
    /\ formatted = Set(<<Quote, Backslash, Quote, Quote, ".", "a">>)
    /\ reparsed = parsed

-----------------------------------------------------------------------------
(* C11 *)

\* C11 as stated: two Fields (two FieldBufs) compare equal iff their names are
\* equal, whatever their requires_quoting flags are.
C11_EqualIffSameName ==
    eq # Unset => (eq.val <=> field.val.name = field2.val.name)

\* C11, amended: two Fields (two FieldBufs) compare equal iff their names are
\* equal and their requires_quoting flags are equal; Fields of one name and
\* different flags compare unequal.
C11_EqualIffSameNameAndFlag ==
    eq # Unset =>
        LET a == field.val
            b == field2.val
        IN /\ eq.val => (a.name = b.name /\ a.requires_quoting = b.requires_quoting)
           /\ (a.name = b.name /\ a.requires_quoting = b.requires_quoting) => eq.val
           /\ (a.name = b.name /\ a.requires_quoting # b.requires_quoting) => ~eq.val

\* Field::from("a") and Field::from("\"a\"") have the name a and compare unequal.
C11_Witness ==
    /\ text = <<"a">>
    /\ text2 = <<Quote, "a", Quote>>
    /\ field = Returned(Field(<<"a">>, FALSE))
    /\ field2 = Returned(Field(<<"a">>, TRUE))
    /\ eq = Set(FALSE)

-----------------------------------------------------------------------------
(* C12 *)

\* The texts C12 speaks of: non-empty, not both beginning and ending with a
\* double quote.
C12_Domain ==
    text # <<>> /\ ~(Head(text) = Quote /\ text[Len(text)] = Quote)

\* C12: for every non-empty text that does not both begin and end with a
\* double quote, with f = FieldBuf::from(text), FieldBuf::from(f.name)
\* completes and equals f in both name and requires_quoting.
C12_RebuildFixedPoint ==
    C12_Domain =>
        /\ field # Unset => ~field.panic
        /\ field2 # Unset =>
               /\ ~field2.panic
               /\ field2.val.name = field.val.name
               /\ field2.val.requires_quoting = field.val.requires_quoting
        /\ eq # Unset => eq.val

\* The text \" (an escaped quote, as the generator writes it) gives a field
\* that requires quoting, and so does its name.
C12_Witness ==
    /\ text = <<Backslash, Quote>>
    /\ field = Returned(Field(<<Backslash, Quote>>, TRUE))
    /\ field2 = field
    /\ eq = Set(TRUE)

-----------------------------------------------------------------------------
(* C13 *)

\* C13: for every borrowed path P, P.into_buf() formats to the same string as
\* P; for every owned path B, B.as_view_path() formats to the same string as B
\* and B.as_view_path().into_buf() equals B; a conversion keeps the segment
\* kinds, their order, the field names and the quoting flags.
C13_Interconvertible ==
    /\ ret.op \in {"into_buf", "as_view_path"} =>
           /\ ret.to = ret.from
           /\ Len(ret.val) = Len(path)
           /\ \A j \in 1..Len(path) :
                  /\ ret.val[j].tag = path[j].tag
                  /\ is_field(path[j]) =>
                         /\ ret.val[j].field.name = path[j].field.name
                         /\ ret.val[j].field.requires_quoting
                                = path[j].field.requires_quoting
                  /\ is_index(path[j]) => ret.val[j].index = path[j].index
                  /\ is_coalesce(path[j]) => ret.val[j].fields = path[j].fields
    /\ ret.op = "as_view_path" => ret.back = path

\* The path "a".(a | "b c")[-12] converted: the quoted a stays quoted although
\* its name is a valid identifier.
C13_Witness ==
    /\ path = <<SegField(FieldAQuoted), SegCoalesce(<<FieldA, FieldBC>>),
                SegIndex(-12)>>
    /\ ret.op = "into_buf"
    /\ ret.val = path
    /\ ret.to = <<Quote, "a", Quote, ".", "(", "a", " ", "|", " ", Quote, "b",
                  " ", "c", Quote, ")", "[", "-", "1", "2", "]">>

-----------------------------------------------------------------------------
(* C14 *)

\* What is in hand after the first k segments of p have been applied to v in
\* turn: the value reached, or not-found once a segment has failed.
RECURSIVE C14_After(_, _, _)
C14_After(v, p, k) ==
    IF k = 0 THEN Some(v)
    ELSE LET before == C14_After(v, p, k - 1)
         IN IF before.some THEN search_segment(before.val, p[k]) ELSE None

\* The first alternative of the Coalesce segment seg that is a member of the
\* object v, as an index into the alternatives; 0 when there is none.
C14_Selected(v, seg) ==
    LET present == {j \in 1..Len(seg.fields) :
                       \E m \in 1..Len(v.members) :
                           v.members[m].key = seg.fields[j].name}
    IN IF present = {} THEN 0
       ELSE CHOOSE j \in present : \A l \in present : j <= l

\* C14: search_path applies the segments front to back and returns not-found
\* as soon as one segment fails; when a Coalesce has selected its first
\* present alternative and the next segment fails under it, the result is
\* not-found even if a later alternative would have let the path resolve.
C14_NoBacktracking ==
    out.op = "search_path" =>
        LET p == out.path
        IN /\ out.val = C14_After(doc, p, Len(p))
           /\ \A k \in 1..Len(p) : ~C14_After(doc, p, k).some => out.val = None
           /\ (Len(p) = 2 /\ is_coalesce(p[1]) /\ doc.tag = "Object"
                 /\ C14_Selected(doc, p[1]) # 0) =>
                  LET j == C14_Selected(doc, p[1])
                      under == MapGet(doc.members, p[1].fields[j].name).val
                  IN ~search_segment(under, p[2]).some => out.val = None

\* {"x": 1, "y": {"c": 1}} with (x | y).c : x is selected, c fails under 1, and
\* the result is not-found although y.c resolves.
C14_Witness ==
    /\ doc = Object(<<Member(<<"x">>, Number(1)),
                      Member(<<"y">>, Object(<<Member(<<"c">>, Number(1))>>))>>)
    /\ out.op = "search_path"
    /\ out.path = <<SegCoalesce(<<Field(<<"x">>, FALSE), Field(<<"y">>, FALSE)>>),
                    SegField(Field(<<"c">>, FALSE))>>
    /\ out.val = None
    /\ search_path(doc, <<SegField(Field(<<"y">>, FALSE)),
                          SegField(Field(<<"c">>, FALSE))>>) = Some(Number(1))

-----------------------------------------------------------------------------
(* C15 *)

\* What one call does to a reference sequence before, giving the sequence
\* after, told position by position; r is what the call left in ret.
C15_Reference(before, after, r) ==
    LET n == Len(before)
    IN CASE r.op = "push_back" ->
              /\ Len(after) = n + 1
              /\ \A j \in 1..n : after[j] = before[j]
              /\ after[n + 1] = r.arg
         [] r.op = "push_front" ->
              /\ Len(after) = n + 1
              /\ after[1] = r.arg
              /\ \A j \in 1..n : after[j + 1] = before[j]
         [] r.op = "pop_back" ->
              IF n = 0
              THEN r.val = None /\ after = before
              ELSE /\ r.val = Some(before[n])
                   /\ Len(after) = n - 1
                   /\ \A j \in 1..(n - 1) : after[j] = before[j]
         [] r.op = "pop_front" ->
              IF n = 0
              THEN r.val = None /\ after = before
              ELSE /\ r.val = Some(before[1])
                   /\ Len(after) = n - 1
                   /\ \A j \in 1..(n - 1) : after[j] = before[j + 1]
         [] r.op = "extend" ->
              /\ Len(after) = n + Len(r.arg)
              /\ \A j \in 1..n : after[j] = before[j]
              /\ \A j \in 1..Len(r.arg) : after[n + j] = r.arg[j]
         [] r.op = "iter" ->
              /\ after = before
              /\ Len(r.val) = n
              /\ \A j \in 1..n : r.val[j] = before[j]
         [] r.op = "is_root" ->
              /\ after = before
              /\ r.val = (n = 0)
         [] OTHER -> after = before

\* C15: starting from root(), every push_front, push_back, pop_front,
\* pop_back and extend leaves the path holding the segments of the reference
\* sequence: a push adds the segment at its end, a pop removes and returns the
\* segment at its end (nothing, and no change, on the root path), extend
\* appends the other path's segments in order, iteration yields the segments
\* front to back, and is_root holds iff the sequence is empty.
C15_DequeRefinement ==
    [][C15_Reference(path, path', ret')]_vars

\* pop_front on a path of three segments returned the front one and left the
\* other two in their order.
C15_Witness ==
    /\ ret.op = "pop_front"
    /\ ret.val = Some(SegIndex(0))
    /\ path = <<SegField(FieldA), SegCoalesce(<<FieldA, FieldBC>>)>>

-----------------------------------------------------------------------------
(* C16 *)

\* C16: constructing a Field or FieldBuf from text is total: for every text,
\* the empty text and the text of a single double quote included,
\* construction completes and yields a Field.
C16_ConstructionTotal ==
    field # Unset =>
        /\ field.panic = FALSE
        /\ field.val.name \in Seq(FieldChars)
        /\ field.val.requires_quoting \in BOOLEAN

\* C16, its consequence: nest_find_by completes for documents whose keys are
\* arbitrary strings (stated of SpecFind).
C16_FindCompletes ==
    out.op \in {"nest_find_by", "nest_find_value"} => out.val.panic = FALSE

\* C16 away from the text of a single double quote: every other text,
\* the empty one included, yields a Field.
C16_ExceptSingleQuote == text # <<Quote>> => C16_ConstructionTotal

\* The empty text yields the Field of the empty name, to be quoted.
C16_EmptyText ==
    (text = <<>> /\ field # Unset) => field = Returned(Field(<<>>, TRUE))

-----------------------------------------------------------------------------
(* C17 *)

\* C17: whenever path.starts_with(prefix) is true, prefix is no longer than
\* path and equals path's first len(prefix) segments; a non-root prefix is
\* never reported as a prefix of the root path or of a shorter path.
C17_TruePrefixOnly ==
    (ret.op = "starts_with" /\ ret.val = TRUE) =>
        /\ Len(needle) <= Len(path)
        /\ \A i \in 1..Len(needle) : needle[i] = path[i]
        /\ path = root => needle = root

\* C17 for the prefixes that are no longer than the path: there true is
\* reported of the path's leading segments only.
C17_WhenNotLonger ==
    (ret.op = "starts_with" /\ ret.val = TRUE /\ Len(needle) <= Len(path)) =>
        \A i \in 1..Len(needle) : needle[i] = path[i]

\* What the code reports of a prefix longer than the path: true iff the path
\* is made of the prefix's leading segments.
C17_LongerPrefix ==
    (ret.op = "starts_with" /\ Len(needle) > Len(path)) =>
        (ret.val <=> \A i \in 1..Len(path) : needle[i] = path[i])

====
